---- MODULE Spec2Model ----
(***************************************************************************)
(* Multi-platform publish orchestrator of auto-blog: the content model,    *)
(* the placeholder documents, the per-platform publishers, the login wait  *)
(* and the unified publish flow of browser.Manager.                        *)
(*                                                                         *)
(* Text is a sequence of segments.  A segment is a record [kind, a, b]:    *)
(*   kind "txt"   : literal text a                                         *)
(*   kind "img"   : the Markdown token ![a](b)                             *)
(*   kind "nl"    : the newline character                                  *)
(*   kind "image" : an image pasted into an editor from file b             *)
(*   kind "br"    : a <br> element of the temporary HTML page              *)
(* Line indexes are 0-based as in the Go code; TLA+ sequences are 1-based. *)
(***************************************************************************)
EXTENDS Integers, Sequences, FiniteSets, TLC

\* ------------------------------------------------------------------ bounds
MaxLines == 3

MaxPolls == 3

MaxPlatforms == 2

MaxTitleCalls == 2

\* Images of the longest article of the image-replacement runs.
MaxImages == 11

\* --------------------------------------------------------------- platforms
Juejin == "Juejin"

Cnblogs == "Cnblogs"

Zhihu == "Zhihu"

SegmentFault == "SegmentFault"

Platforms == {Juejin, Cnblogs, Zhihu, SegmentFault}

\* ------------------------------------------------------------ content model
TxtSeg(s) == [kind |-> "txt", a |-> s, b |-> ""]

ImgSeg(alt, path) == [kind |-> "img", a |-> alt, b |-> path]

NL == [kind |-> "nl", a |-> "", b |-> ""]

PastedImage(path) == [kind |-> "image", a |-> "", b |-> path]

\* Files present on disk when os.Stat runs; M.png is referenced but missing.
ExistingFiles == {"X.png", "Y.png"}

\* article.Image
Image(alt, path, lineIndex) ==
    [AltText |-> alt, AbsolutePath |-> path, LineIndex |-> lineIndex]

\* The matches of imageRegex in one line, left to right.
RECURSIVE FindAllImageMatches(_)
FindAllImageMatches(line) ==
    IF line = <<>> THEN <<>>
    ELSE IF Head(line).kind = "img"
         THEN <<Head(line)>> \o FindAllImageMatches(Tail(line))
         ELSE FindAllImageMatches(Tail(line))

\* One Image per match, all with the line's index i.
RECURSIVE ImagesOfMatches(_, _)
ImagesOfMatches(matches, i) ==
    IF matches = <<>> THEN <<>>
    ELSE <<Image(Head(matches).a, Head(matches).b, i)>>
         \o ImagesOfMatches(Tail(matches), i)

\* Parser.parseImages: for i, line := range content, for each match append.
RECURSIVE parseImagesFrom(_, _)
parseImagesFrom(content, i) ==
    IF i >= Len(content) THEN <<>>
    ELSE ImagesOfMatches(FindAllImageMatches(content[i + 1]), i)
         \o parseImagesFrom(content, i + 1)

parseImages(content) == parseImagesFrom(content, 0)

\* Parser.ParseFile, after the title line has been split off.
ParseFile(title, content) ==
    [Title |-> title, Content |-> content, Images |-> parseImages(content)]

\* ------------------------------------------------------ placeholder documents
\* fmt.Sprintf("IMAGE_PLACEHOLDER_%d", n)
PlaceholderStr(n) == "IMAGE_PLACEHOLDER_" \o ToString(n)

\* for _, img := range art.Images { if img.LineIndex == i { ...; break } }
IsImageLine(art, i) ==
    \E k \in 1..Len(art.Images) : art.Images[k].LineIndex = i

\* RichContentHandler.PrepareTextWithPlaceholders: the loop from line i with the
\* running imageIndex counter.
RECURSIVE PrepareTextFrom(_, _, _)
PrepareTextFrom(art, i, imageIndex) ==
    IF i >= Len(art.Content) THEN <<>>
    ELSE IF IsImageLine(art, i)
         THEN <<TxtSeg(PlaceholderStr(imageIndex)), NL>>
              \o PrepareTextFrom(art, i + 1, imageIndex + 1)
         ELSE art.Content[i + 1] \o <<NL>>
              \o PrepareTextFrom(art, i + 1, imageIndex)

PrepareTextWithPlaceholders(art) == PrepareTextFrom(art, 0, 0)

\* RichContentHandler.PrepareMarkdownWithPlaceholders: the same loop.
RECURSIVE PrepareMarkdownFrom(_, _, _)
PrepareMarkdownFrom(art, i, imageIndex) ==
    IF i >= Len(art.Content) THEN <<>>
    ELSE IF IsImageLine(art, i)
         THEN <<TxtSeg(PlaceholderStr(imageIndex)), NL>>
              \o PrepareMarkdownFrom(art, i + 1, imageIndex + 1)
         ELSE art.Content[i + 1] \o <<NL>>
              \o PrepareMarkdownFrom(art, i + 1, imageIndex)

PrepareMarkdownWithPlaceholders(art) == PrepareMarkdownFrom(art, 0, 0)

\* strings.Join(content, "\n")
RECURSIVE JoinLines(_)
JoinLines(content) ==
    IF content = <<>> THEN <<>>
    ELSE IF Len(content) = 1 THEN content[1]
    ELSE content[1] \o <<NL>> \o JoinLines(Tail(content))

\* placeholder := fmt.Sprintf("IMAGE_PLACEHOLDER_%d", imageIndex) in
\* replaceImageInAllPlatforms.
OrchestratorPlaceholder(imageIndex) == PlaceholderStr(imageIndex)

\* ------------------------------------------------------------- text helpers
\* The lines of a text: the runs between newlines; a final newline ends the
\* last line and opens no further one.
RECURSIVE SplitLinesAcc(_, _)
SplitLinesAcc(text, cur) ==
    IF text = <<>> THEN (IF cur = <<>> THEN <<>> ELSE <<cur>>)
    ELSE IF Head(text).kind = "nl"
         THEN <<cur>> \o SplitLinesAcc(Tail(text), <<>>)
         ELSE SplitLinesAcc(Tail(text), Append(cur, Head(text)))

SplitLines(text) == SplitLinesAcc(text, <<>>)

\* The decimal numeral of i is a proper prefix of the decimal numeral of j.
RECURSIVE IsNumeralPrefix(_, _)
IsNumeralPrefix(i, j) ==
    /\ j >= 10
    /\ \/ j \div 10 = i
       \/ IsNumeralPrefix(i, j \div 10)

\* The digits of j that follow the numeral of i, its proper prefix.
RECURSIVE NumeralSuffix(_, _)
NumeralSuffix(i, j) ==
    IF j \div 10 = i THEN ToString(j % 10)
    ELSE NumeralSuffix(i, j \div 10) \o ToString(j % 10)

\* The numbers of the tokens a text of these runs can hold.
TokenNumbers == 0..(10 * MaxImages + 9)

\* The number of each token.
TokenNumber == [n \in TokenNumbers |-> PlaceholderStr(n)]

Tokens == { TokenNumber[n] : n \in TokenNumbers }

NumberOf(token) == CHOOSE n \in TokenNumbers : TokenNumber[n] = token

\* String.indexOf inside one segment: the searched text occurs in the segment
\* when it is the segment's text, or when both are placeholder tokens and the
\* segment's token starts with the searched one: IMAGE_PLACEHOLDER_1 is the
\* start of IMAGE_PLACEHOLDER_10.
Occurs(seg, searchText) ==
    /\ seg.kind = "txt"
    /\ \/ seg.a = searchText
       \/ /\ seg.a \in Tokens
          /\ searchText \in Tokens
          /\ IsNumeralPrefix(NumberOf(searchText), NumberOf(seg.a))

\* content.indexOf(searchText): the 1-based position of the first segment in
\* which the searched text occurs, 0 when there is none.
RECURSIVE IndexOfFrom(_, _, _)
IndexOfFrom(text, searchText, pos) ==
    IF pos > Len(text) THEN 0
    ELSE IF Occurs(text[pos], searchText) THEN pos
    ELSE IndexOfFrom(text, searchText, pos + 1)

IndexOf(text, searchText) == IndexOfFrom(text, searchText, 1)

\* The text with the segment at position pos removed.
RemoveAt(text, pos) ==
    SubSeq(text, 1, pos - 1) \o SubSeq(text, pos + 1, Len(text))

\* The digits left of a longer token once the selection {ch, ch +
\* searchText.length} at its start has been deleted.
Unselected(seg, searchText) ==
    TxtSeg(NumeralSuffix(NumberOf(searchText), NumberOf(seg.a)))

\* The text after the selection made at position pos has been deleted: the
\* whole segment when it was the searched text, else the start of it; with
\* no selection (pos = 0) nothing is removed.
DeleteSelection(text, pos, searchText) ==
    IF pos = 0 \/ text[pos].a = searchText THEN RemoveAt(text, pos)
    ELSE [text EXCEPT ![pos] = Unselected(text[pos], searchText)]

\* The text with the text s inserted so that it starts at position pos.
InsertAt(text, pos, s) ==
    SubSeq(text, 1, pos - 1) \o s \o SubSeq(text, pos, Len(text))

\* ------------------------------------------------------------------ inputs
LineAlphabet ==
    { <<TxtSeg("a")>>,
      <<TxtSeg("b")>>,
      <<>>,
      <<ImgSeg("x", "X.png")>>,
      <<ImgSeg("m", "M.png")>>,
      <<ImgSeg("x", "X.png"), ImgSeg("y", "Y.png")>>,
      <<TxtSeg(PlaceholderStr(0))>> }

Contents == UNION { [1..n -> LineAlphabet] : n \in 0..MaxLines }

Articles == { ParseFile("Hello", c) : c \in Contents }

\* Articles of the publish flow (m.articles[0]).
FlowContents ==
    { <<  <<TxtSeg("a")>>, <<TxtSeg("b")>>  >>,
      <<  <<TxtSeg("a")>>, <<ImgSeg("x", "X.png")>>, <<TxtSeg("b")>>  >>,
      <<  <<ImgSeg("x", "X.png")>>, <<ImgSeg("y", "Y.png")>>  >>,
      <<  <<ImgSeg("x", "X.png")>>, <<ImgSeg("m", "M.png")>>  >>,
      <<  <<TxtSeg(PlaceholderStr(0))>>, <<ImgSeg("x", "X.png")>>  >> }

FlowArticles == { ParseFile("Hello", c) : c \in FlowContents }

NumImagesOf(arts) == IF arts = <<>> THEN 0 ELSE Len(arts[1].Images)

MaxFlowImages ==
    CHOOSE n \in 0..(2 * MaxLines) :
        /\ \A a \in FlowArticles : Len(a.Images) <= n
        /\ \E a \in FlowArticles : Len(a.Images) = n

\* One ReplaceTextWithImage call: platform, image index, and the stage that
\* issued it ("fill": inside PublishArticle, "unified": step 4 of the flow).
Stages == {"fill", "unified"}

\* Step 4 calls every publisher; inside PublishArticle only SegmentFault's
\* image loop does.
TaskIds ==
    { t \in Platforms \X (0..(MaxImages - 1)) \X Stages :
        t[3] = "fill" => t[1] = SegmentFault }

\* The platform maps OpenPlatforms can be called with.
PlatformSets == { S \in SUBSET Platforms : Cardinality(S) >= 1 /\ Cardinality(S) <= MaxPlatforms }

\* --------------------------------------------------------------------- state
VARIABLES
    platforms,      \* the keys of the map passed to OpenPlatforms
    articles,       \* Manager.articles
    url,            \* page.URL() of each platform page
    pc,             \* position of the main goroutine
    opc,            \* position of each OpenPlatforms goroutine
    platformPages,  \* the map filled by OpenPlatforms
    checked,        \* platforms the step-1 loop of unifiedPublishFlow has visited
    validPages,     \* validPages of unifiedPublishFlow
    publishers,     \* publishers of unifiedPublishFlow
    fpc,            \* position of each fillPlatformContent goroutine
    fi,             \* loop index i of SegmentFault PublishArticle's image loop
    titleField,     \* content of each page's title input
    editor,         \* content of each page's body editor
    cursor,         \* each editor's cursor position after a selection was deleted
    clipboard,      \* the system clipboard content (a text)
    clipOwner,      \* who wrote the clipboard last: [p, i, stage]
    rpc,            \* position of each ReplaceTextWithImage call
    imageIndex,     \* imageIndex of unifiedPublishFlow's step-4 loop
    log,            \* per platform, the adapter calls issued so far
    bodyText,       \* per platform, the text body-fill put into the editor
    mon,            \* login wait state of each page
    observed,       \* the URLs each login wait has read, in order
    monSaves,       \* session saves issued by each login wait
    monNavs,        \* navigations issued by each login wait
    saveCount,      \* calls of Manager.SaveSession
    docs,           \* outputs of the placeholder-document functions
    dpc,            \* position of the document computation
    proc,           \* the process: running, killed by a signal, or exited
    notified,       \* signal.Notify has registered the channel of WaitForExit
    closing,        \* Manager.closing
    connected,      \* the browser is connected
    closeCalls,     \* invocations of Manager.Close so far
    closeStep,      \* the step of Close the running invocation is at
    shutdown,       \* the steps of Close that have returned, in order
    spc,            \* position of each goroutine inside SaveSession
    fileWrite,      \* outcome of os.WriteFile in each goroutine's last save
    saveRet,        \* what each goroutine's last SaveSession returned
    publishSection, \* raw value of each key of the [publish] section
    enabledPlatforms \* the map main got from GetEnabledPlatforms

vars == <<platforms, articles, url, pc, opc, platformPages, checked, validPages,
          publishers, fpc, fi, titleField, editor, cursor, clipboard, clipOwner,
          rpc, imageIndex, log, bodyText, mon, observed, monSaves, monNavs,
          saveCount, docs, dpc, proc, notified, closing, connected,
          closeCalls, closeStep, shutdown, spc, fileWrite, saveRet,
          publishSection, enabledPlatforms>>

flowVars == <<pc, opc, platformPages, checked, validPages, publishers,
              fpc, fi, titleField, editor, cursor, clipboard, clipOwner, rpc,
              imageIndex, log, bodyText>>

monVars == <<mon, observed, monSaves, monNavs, saveCount>>

docVars == <<docs, dpc>>

cfgVars == <<publishSection, enabledPlatforms>>

lifeVars == <<proc, notified, closing, connected, closeCalls, closeStep,
              shutdown, spc, fileWrite, saveRet>>

\* The goroutines that call SaveSession: main (post-login save of the flow,
\* Close), the "disconnected" handler, and the login checkers' goroutines.
Savers == {"main", "handler", Cnblogs, Zhihu}

\* NewManager has returned: the browser runs, closing has its zero value,
\* no signal channel is registered, nothing was saved.
InitLife ==
    /\ proc = "running"
    /\ notified = FALSE
    /\ closing = FALSE
    /\ connected = TRUE
    /\ closeCalls = 0
    /\ closeStep = 0
    /\ shutdown = <<>>
    /\ spc = [g \in Savers |-> "idle"]
    /\ fileWrite = [g \in Savers |-> "none"]
    /\ saveRet = [g \in Savers |-> "none"]

NoOwner == [p |-> "", i |-> -1, stage |-> ""]

NoDocs == [text |-> <<>>, markdown |-> <<>>, joined |-> <<>>, orch |-> <<>>]

\* The keys GetEnabledPlatforms may look up in the [publish] section.
PublishKeys == {"juejin", "cnblogs", "zhihu", "segmentfault"}

\* A [publish] section with none of the keys.
NoSection == [k \in PublishKeys |-> ""]

\* make(map[string]string): the empty map of platform name to entry URL.
NoPlatforms == [p \in {} |-> ""]

Ev(ev, i, stage, ph, path, res) ==
    [ev |-> ev, i |-> i, stage |-> stage, ph |-> ph, path |-> path, res |-> res]

\* The state after NewManager, before OpenPlatforms.
InitCommon ==
    /\ url = [p \in Platforms |-> "none"]
    /\ opc = [p \in Platforms |-> "idle"]
    /\ platformPages = {}
    /\ checked = {}
    /\ validPages = {}
    /\ publishers = {}
    /\ fpc = [p \in Platforms |-> "none"]
    /\ fi = 0
    /\ titleField = [p \in Platforms |-> ""]
    /\ editor = [p \in Platforms |-> <<>>]
    /\ cursor = [p \in Platforms |-> 1]
    /\ clipboard = <<>>
    /\ clipOwner = NoOwner
    /\ rpc = [t \in TaskIds |-> "none"]
    /\ imageIndex = 0
    /\ log = [p \in Platforms |-> <<>>]
    /\ bodyText = [p \in Platforms |-> <<>>]
    /\ mon = [p \in Platforms |-> "Unknown"]
    /\ observed = [p \in Platforms |-> <<>>]
    /\ monSaves = [p \in Platforms |-> 0]
    /\ monNavs = [p \in Platforms |-> 0]
    /\ saveCount = 0
    /\ docs = NoDocs
    /\ dpc = {}
    /\ publishSection = NoSection
    /\ enabledPlatforms = NoPlatforms
    /\ InitLife

Init ==
    /\ InitCommon
    /\ platforms \in PlatformSets
    /\ articles \in {<<>>} \cup { <<a>> : a \in FlowArticles }
    /\ pc = "OpenPlatforms"

\* ------------------------------------------------------------ session save
\* Manager.SaveSession: one more write of state.json.
SaveSession == saveCount' = saveCount + 1

\* ----------------------------------------------------------- OpenPlatforms
\* OpenPlatforms: one goroutine per entry of the platforms map is started.
OpenPlatformsStart ==
    /\ pc = "OpenPlatforms"
    /\ opc' = [p \in Platforms |-> IF p \in platforms THEN "run" ELSE "idle"]
    /\ pc' = "OpenWait"
    /\ UNCHANGED <<platforms, articles, url, platformPages, checked, validPages,
                   publishers, fpc, fi, titleField, editor, cursor, clipboard,
                   clipOwner, rpc, imageIndex, log, bodyText>>
    /\ UNCHANGED monVars
    /\ UNCHANGED docVars
    /\ UNCHANGED cfgVars
    /\ UNCHANGED lifeVars

\* One goroutine of OpenPlatforms: Manager.openPlatform returns nil when
\* NewPage or Goto fails, else the page, which the site may have redirected
\* to its login route; a page is stored in platformPages under the mutex.
openPlatform(p) ==
    /\ opc[p] = "run"
    /\ \E r \in {"nil", "login", "editor"} :
          /\ url' = [url EXCEPT ![p] = IF r = "nil" THEN "none" ELSE r]
          /\ platformPages' = IF r = "nil" THEN platformPages ELSE platformPages \cup {p}
    /\ opc' = [opc EXCEPT ![p] = "done"]
    /\ UNCHANGED <<platforms, articles, pc, checked, validPages,
                   publishers, fpc, fi, titleField, editor, cursor, clipboard,
                   clipOwner, rpc, imageIndex, log, bodyText>>
    /\ UNCHANGED monVars
    /\ UNCHANGED docVars
    /\ UNCHANGED cfgVars
    /\ UNCHANGED lifeVars

\* Fault: OpenPlatforms without its wg.Wait().
OpenWgWaitSkipped == TRUE

\* wg.Wait() of OpenPlatforms: every opener has called wg.Done().
OpenWgWait == \A p \in platforms : opc[p] = "done"

\* wg.Wait() of OpenPlatforms, then unifiedPublishFlow if there are articles.
OpenWaitDone ==
    /\ pc = "OpenWait"
    /\ OpenWgWait
    /\ pc' = IF Len(articles) > 0 THEN "ReadyLoop" ELSE "FlowDone"
    /\ UNCHANGED <<platforms, articles, url, opc, platformPages, checked,
                   validPages, publishers, fpc, fi, titleField, editor, cursor,
                   clipboard, clipOwner, rpc, imageIndex, log, bodyText>>
    /\ UNCHANGED monVars
    /\ UNCHANGED docVars
    /\ UNCHANGED cfgVars
    /\ UNCHANGED lifeVars

\* ------------------------------------------------------------- environment
\* The user completes the login in the browser window; the site leaves its
\* login route for the editor or for some other page.  Nothing reads the URL
\* of a page once its readiness wait is over.
UserNavigates(p) ==
    /\ url[p] = "login"
    /\ p \notin checked
    /\ \E u \in {"editor", "other"} : url' = [url EXCEPT ![p] = u]
    /\ UNCHANGED <<platforms, articles>>
    /\ UNCHANGED flowVars
    /\ UNCHANGED monVars
    /\ UNCHANGED docVars
    /\ UNCHANGED cfgVars
    /\ UNCHANGED lifeVars

\* -------------------------------------------- step 1: wait for the editors
\* titleLocator.WaitFor / editorLocator.WaitFor: the elements can only become
\* visible on the editor route.
EditorWaitOutcomes(u) == IF u = "editor" THEN BOOLEAN ELSE {FALSE}

\* waitForJuejinEditor, waitForCnblogsEditor, waitForZhihuEditor inside the
\* sequential loop over platformPages.
waitForPlatformEditor(p) ==
    /\ pc = "ReadyLoop"
    /\ p \in platformPages \ checked
    /\ p # SegmentFault
    /\ \E ok \in EditorWaitOutcomes(url[p]) :
          validPages' = IF ok THEN validPages \cup {p} ELSE validPages
    /\ checked' = checked \cup {p}
    /\ UNCHANGED <<platforms, articles, url, pc, opc, platformPages,
                   publishers, fpc, fi, titleField, editor, cursor, clipboard,
                   clipOwner, rpc, imageIndex, log, bodyText>>
    /\ UNCHANGED monVars
    /\ UNCHANGED docVars
    /\ UNCHANGED cfgVars
    /\ UNCHANGED lifeVars

\* waitForSegmentFaultEditor, entry: read the URL, enter the login wait if it
\* is the login route.
SFWaitEntry ==
    /\ pc = "ReadyLoop"
    /\ SegmentFault \in platformPages \ checked
    /\ observed' = [observed EXCEPT ![SegmentFault] = Append(@, url[SegmentFault])]
    /\ IF url[SegmentFault] = "login"
       THEN /\ mon' = [mon EXCEPT ![SegmentFault] = "AwaitingLogin"]
            /\ pc' = "SFLoginPoll"
       ELSE /\ mon' = [mon EXCEPT ![SegmentFault] = "Returned"]
            /\ pc' = "SFEditorCheck"
    /\ UNCHANGED <<platforms, articles, url, opc, platformPages, checked,
                   validPages, publishers, fpc, fi, titleField, editor, cursor,
                   clipboard, clipOwner, rpc, imageIndex, log, bodyText>>
    /\ UNCHANGED <<monSaves, monNavs, saveCount>>
    /\ UNCHANGED docVars
    /\ UNCHANGED cfgVars
    /\ UNCHANGED lifeVars

\* The ticker loops go on for ever while the page is on its login route; the
\* reads are recorded up to MaxPolls of them, later ones change nothing.
PollRecord(obs, u) == IF Len(obs) <= MaxPolls THEN Append(obs, u) ELSE obs

\* Fault: the ticker loop takes every URL for a page off the login route.
LeftLoginRouteAlways(u) == TRUE

\* Fault: the ticker loop takes no URL for a page off the login route.
LeftLoginRouteNever(u) == FALSE

\* !strings.Contains(currentURL, <login route>) in the ticker loops.
LeftLoginRoute(u) == u # "login"

\* waitForSegmentFaultEditor, one tick of the 1 s ticker: read the URL; once
\* it is off the login route, save the session and leave the loop.
SFLoginTick ==
    /\ pc = "SFLoginPoll"
    /\ IF LeftLoginRoute(url[SegmentFault])
       THEN /\ observed' = [observed EXCEPT ![SegmentFault] = Append(@, url[SegmentFault])]
            /\ SaveSession
            /\ monSaves' = [monSaves EXCEPT ![SegmentFault] = @ + 1]
            /\ mon' = [mon EXCEPT ![SegmentFault] = "LoggedIn"]
            /\ pc' = "SFEditorCheck"
       ELSE /\ observed' = [observed EXCEPT ![SegmentFault] = PollRecord(@, url[SegmentFault])]
            /\ UNCHANGED <<saveCount, monSaves, mon, pc>>
    /\ UNCHANGED <<platforms, articles, url, opc, platformPages, checked,
                   validPages, publishers, fpc, fi, titleField, editor, cursor,
                   clipboard, clipOwner, rpc, imageIndex, log, bodyText>>
    /\ UNCHANGED <<monNavs>>
    /\ UNCHANGED docVars
    /\ UNCHANGED cfgVars
    /\ UNCHANGED lifeVars

\* waitForSegmentFaultEditor from continueEditorCheck: go to the write page
\* unless already there, then wait for the title input and the editor.
SFEditorCheck ==
    /\ pc = "SFEditorCheck"
    /\ \E r \in (IF url[SegmentFault] = "editor"
                 THEN {"stay"} ELSE {"gotoFailed", "editor", "login"}) :
          /\ monNavs' = [monNavs EXCEPT ![SegmentFault] = IF r = "stay" THEN @ ELSE @ + 1]
          /\ url' = [url EXCEPT ![SegmentFault] =
                        IF r \in {"stay", "gotoFailed"} THEN @ ELSE r]
          /\ \E ok \in (IF r = "gotoFailed" THEN {FALSE}
                        ELSE EditorWaitOutcomes(url'[SegmentFault])) :
                validPages' = IF ok THEN validPages \cup {SegmentFault} ELSE validPages
    /\ checked' = checked \cup {SegmentFault}
    /\ pc' = "ReadyLoop"
    /\ UNCHANGED <<platforms, articles, opc, platformPages,
                   publishers, fpc, fi, titleField, editor, cursor, clipboard,
                   clipOwner, rpc, imageIndex, log, bodyText>>
    /\ UNCHANGED <<mon, observed, monSaves, saveCount>>
    /\ UNCHANGED docVars
    /\ UNCHANGED cfgVars
    /\ UNCHANGED lifeVars

\* Fault: step 2 makes a publisher for every opened page.
NewPublishersOfAllPages == platformPages

\* Step 2: for platformName, page := range validPages, one publisher each.
NewPublishers == validPages

\* End of step 1 and step 2: no valid page ends the flow; otherwise one
\* publisher per valid page, and step 3 starts one fill goroutine for each.
ReadyLoopDone ==
    /\ pc = "ReadyLoop"
    /\ checked = platformPages
    /\ IF validPages = {}
       THEN /\ pc' = "FlowDone"
            /\ UNCHANGED <<publishers, fpc>>
       ELSE /\ publishers' = NewPublishers
            /\ fpc' = [p \in Platforms |-> IF p \in NewPublishers THEN "run" ELSE "none"]
            /\ pc' = "FillWait"
    /\ UNCHANGED <<platforms, articles, url, opc, platformPages, checked,
                   validPages, fi, titleField, editor, cursor, clipboard,
                   clipOwner, rpc, imageIndex, log, bodyText>>
    /\ UNCHANGED monVars
    /\ UNCHANGED docVars
    /\ UNCHANGED cfgVars
    /\ UNCHANGED lifeVars

\* ------------------------------------------------ step 3: title and body
Art == articles[1]

\* Fault: Fill types the value after what the input holds.
FillAppends(current, value) == current \o value

\* Locator.Fill(value): the input's content is replaced by value.
Fill(current, value) == value

TypePlatforms == {Juejin, Cnblogs}

\* The log entry of a fillTitle call.
TitleEv(ok) == Ev("title", -1, "fill", "", "", IF ok THEN "ok" ELSE "error")

\* The log entries of a body fill call that has returned.
BodyEvs(ok) ==
    << Ev("bodyStart", -1, "fill", "", "", ""),
       Ev("bodyEnd", -1, "fill", "", "", IF ok THEN "ok" ELSE "error") >>

\* fillPlatformContent -> PublishArticle of Juejin and Cnblogs: fillTitle,
\* then fillContent even when the title failed; both errors are only logged.
\* fillContent -> RichContentHandler.fillContentWithType waits for the
\* editor, clicks it and types PrepareTextWithPlaceholders(article).
PublishArticle(p) ==
    /\ fpc[p] = "run"
    /\ p \in TypePlatforms
    /\ \E tok \in BOOLEAN, bok \in BOOLEAN :
          LET text == PrepareTextWithPlaceholders(Art) IN
          /\ titleField' = [titleField EXCEPT ![p] = IF tok THEN Fill(@, Art.Title) ELSE @]
          /\ editor' = [editor EXCEPT ![p] = IF bok THEN @ \o text ELSE @]
          /\ bodyText' = [bodyText EXCEPT ![p] = IF bok THEN text ELSE @]
          /\ log' = [log EXCEPT ![p] = (@ \o <<TitleEv(tok)>>) \o BodyEvs(bok)]
    /\ fpc' = [fpc EXCEPT ![p] = "done"]
    /\ UNCHANGED <<platforms, articles, url, pc, opc, platformPages, checked,
                   validPages, publishers, fi, cursor, clipboard,
                   clipOwner, rpc, imageIndex>>
    /\ UNCHANGED monVars
    /\ UNCHANGED docVars
    /\ UNCHANGED cfgVars
    /\ UNCHANGED lifeVars

\* CreateAndLoadTempPage: strings.ReplaceAll(content, "\n", "<br>") inside a
\* contenteditable div.
ToTempPageHtml(text) ==
    [k \in 1..Len(text) |->
        IF text[k].kind = "nl" THEN [kind |-> "br", a |-> "", b |-> ""] ELSE text[k]]

\* What select-all + copy takes from the rendered temp page: a <br> is a line
\* break again.
CopyOfRendered(html) ==
    [k \in 1..Len(html) |-> IF html[k].kind = "br" THEN NL ELSE html[k]]

\* Zhihu PublishArticle: fillTitle, then fillContentWithPaste steps 1-3:
\* placeholder Markdown into a temp page, select all, copy to the system
\* clipboard, close the temp page.
SelectAndCopyContent ==
    /\ fpc[Zhihu] = "run"
    /\ \E tok \in BOOLEAN, ok \in BOOLEAN :
          /\ titleField' = [titleField EXCEPT ![Zhihu] = IF tok THEN Fill(@, Art.Title) ELSE @]
          /\ IF ok
             THEN /\ clipboard' = CopyOfRendered(ToTempPageHtml(PrepareMarkdownWithPlaceholders(Art)))
                  /\ clipOwner' = [p |-> Zhihu, i |-> -1, stage |-> "fill"]
                  /\ fpc' = [fpc EXCEPT ![Zhihu] = "paste"]
                  /\ log' = [log EXCEPT ![Zhihu] =
                                @ \o <<TitleEv(tok), Ev("bodyStart", -1, "fill", "", "", "")>>]
             ELSE /\ fpc' = [fpc EXCEPT ![Zhihu] = "done"]
                  /\ log' = [log EXCEPT ![Zhihu] = (@ \o <<TitleEv(tok)>>) \o BodyEvs(FALSE)]
                  /\ UNCHANGED <<clipboard, clipOwner>>
    /\ UNCHANGED <<platforms, articles, url, pc, opc, platformPages, checked,
                   validPages, publishers, fi, editor, cursor,
                   rpc, imageIndex, bodyText>>
    /\ UNCHANGED monVars
    /\ UNCHANGED docVars
    /\ UNCHANGED cfgVars
    /\ UNCHANGED lifeVars

\* fillContentWithPaste, step 4 (PasteToEditor): bring the page to front,
\* click the editor, select all, paste whatever the clipboard holds now.
PasteToEditor ==
    /\ fpc[Zhihu] = "paste"
    /\ \E ok \in BOOLEAN :
          /\ editor' = [editor EXCEPT ![Zhihu] = IF ok THEN clipboard ELSE @]
          /\ bodyText' = [bodyText EXCEPT ![Zhihu] = IF ok THEN clipboard ELSE @]
          /\ log' = [log EXCEPT ![Zhihu] =
                        Append(@, Ev("bodyEnd", -1, "fill", "", "", IF ok THEN "ok" ELSE "error"))]
    /\ fpc' = [fpc EXCEPT ![Zhihu] = "done"]
    /\ UNCHANGED <<platforms, articles, url, pc, opc, platformPages, checked,
                   validPages, publishers, fi, titleField, cursor, clipboard,
                   clipOwner, rpc, imageIndex>>
    /\ UNCHANGED monVars
    /\ UNCHANGED docVars
    /\ UNCHANGED cfgVars
    /\ UNCHANGED lifeVars

\* segmentfault Publisher.PublishArticle, steps 1-3: fillTitle, activateEditor
\* and fillContent(art.Content), an error of any of them returns.
\* fillContent sets strings.Join(content, "\n") as the editor's value (or
\* selects all, deletes and types it).  Step 4 then starts the image loop.
SFPublishArticle ==
    /\ fpc[SegmentFault] = "run"
    /\ \E r \in {"titleError", "activateError", "contentError", "ok"} :
          LET text == JoinLines(Art.Content) IN
          /\ titleField' = [titleField EXCEPT ![SegmentFault] =
                               IF r = "titleError" THEN @ ELSE Fill(@, Art.Title)]
          /\ editor' = [editor EXCEPT ![SegmentFault] = IF r = "ok" THEN text ELSE @]
          /\ bodyText' = [bodyText EXCEPT ![SegmentFault] = IF r = "ok" THEN text ELSE @]
          /\ log' = [log EXCEPT ![SegmentFault] =
                        (@ \o <<TitleEv(r # "titleError")>>)
                           \o (IF r \in {"contentError", "ok"} THEN BodyEvs(r = "ok") ELSE <<>>)]
          /\ IF r = "ok" /\ Len(Art.Images) > 0
             THEN /\ fpc' = [fpc EXCEPT ![SegmentFault] = "replace"]
                  /\ rpc' = [rpc EXCEPT ![<<SegmentFault, 0, "fill">>] = "find"]
             ELSE /\ fpc' = [fpc EXCEPT ![SegmentFault] = "done"]
                  /\ UNCHANGED rpc
    /\ fi' = 0
    /\ UNCHANGED <<platforms, articles, url, pc, opc, platformPages, checked,
                   validPages, publishers, cursor, clipboard,
                   clipOwner, imageIndex>>
    /\ UNCHANGED monVars
    /\ UNCHANGED docVars
    /\ UNCHANGED cfgVars
    /\ UNCHANGED lifeVars

\* segmentfault Publisher.PublishArticle, step 4: for i, img := range
\* art.Images, ReplaceTextWithImage(IMAGE_PLACEHOLDER_i, img) has returned;
\* whatever it returned, go on with the next image or return nil.
SFReplaceLoop ==
    /\ fpc[SegmentFault] = "replace"
    /\ rpc[<<SegmentFault, fi, "fill">>] = "done"
    /\ fi' = fi + 1
    /\ IF fi + 1 < Len(Art.Images)
       THEN /\ rpc' = [rpc EXCEPT ![<<SegmentFault, fi + 1, "fill">>] = "find"]
            /\ UNCHANGED fpc
       ELSE /\ fpc' = [fpc EXCEPT ![SegmentFault] = "done"]
            /\ UNCHANGED rpc
    /\ UNCHANGED <<platforms, articles, url, pc, opc, platformPages, checked,
                   validPages, publishers, titleField, editor, cursor, clipboard,
                   clipOwner, imageIndex, log, bodyText>>
    /\ UNCHANGED monVars
    /\ UNCHANGED docVars
    /\ UNCHANGED cfgVars
    /\ UNCHANGED lifeVars

\* ------------------------------------------------- ReplaceTextWithImage
\* Fault: ReplaceTextWithImage goes on when the placeholder was not found.
ReturnsNotFoundNever(found) == FALSE

\* if found, ok := result.(bool); !ok || !found { return fmt.Errorf(...) }
ReturnsNotFound(found) == ~found

\* ReplaceTextWithImage up to the clipboard write.  findAndSelectText / the
\* indexOf script looks for the placeholder in the editor and selects it
\* (not found: return an error); Delete removes the selection and leaves the
\* cursor there; CopyImageToClipboard stats the image file (missing: return
\* an error) and navigator.clipboard.write puts the image on the one system
\* clipboard.
\* Juejin, Cnblogs and SegmentFault implement these steps alike; Zhihu's
\* ReplaceTextWithImage, which replaceImageByIndex calls the same way, is
\* taken to follow them too.
CopyImageToClipboard(t) ==
    LET p    == t[1]
        ph   == OrchestratorPlaceholder(t[2])
        path == Art.Images[t[2] + 1].AbsolutePath
        pos  == IndexOf(editor[p], ph)
        start == Ev("replStart", t[2], t[3], ph, path, "")
    IN
    /\ rpc[t] = "find"
    /\ IF ReturnsNotFound(pos # 0)
       THEN /\ rpc' = [rpc EXCEPT ![t] = "done"]
            /\ log' = [log EXCEPT ![p] =
                          @ \o <<start, Ev("replEnd", t[2], t[3], ph, path, "notfound")>>]
            /\ UNCHANGED <<editor, cursor, clipboard, clipOwner>>
       ELSE /\ editor' = [editor EXCEPT ![p] = DeleteSelection(@, pos, ph)]
            /\ cursor' = [cursor EXCEPT ![p] = pos]
            /\ IF path \in ExistingFiles
               THEN /\ clipboard' = << PastedImage(path) >>
                    /\ clipOwner' = [p |-> p, i |-> t[2], stage |-> t[3]]
                    /\ rpc' = [rpc EXCEPT ![t] = "paste"]
                    /\ log' = [log EXCEPT ![p] = Append(@, start)]
               ELSE /\ rpc' = [rpc EXCEPT ![t] = "done"]
                    /\ log' = [log EXCEPT ![p] =
                                  @ \o <<start, Ev("replEnd", t[2], t[3], ph, path, "copyerror")>>]
                    /\ UNCHANGED <<clipboard, clipOwner>>
    /\ UNCHANGED <<platforms, articles, url, pc, opc, platformPages, checked,
                   validPages, publishers, fpc, fi, titleField, imageIndex, bodyText>>
    /\ UNCHANGED monVars
    /\ UNCHANGED docVars
    /\ UNCHANGED cfgVars
    /\ UNCHANGED lifeVars

\* PasteImageToEditor and the rest of ReplaceTextWithImage: Meta+v inserts
\* what the clipboard holds now at the cursor; the upload wait never fails
\* the call.
PasteImageToEditor(t) ==
    LET p    == t[1]
        ph   == OrchestratorPlaceholder(t[2])
        path == Art.Images[t[2] + 1].AbsolutePath
    IN
    /\ rpc[t] = "paste"
    /\ editor' = [editor EXCEPT ![p] = InsertAt(@, cursor[p], clipboard)]
    /\ cursor' = [cursor EXCEPT ![p] = @ + Len(clipboard)]
    /\ rpc' = [rpc EXCEPT ![t] = "done"]
    /\ log' = [log EXCEPT ![p] = Append(@, Ev("replEnd", t[2], t[3], ph, path, "ok"))]
    /\ UNCHANGED <<platforms, articles, url, pc, opc, platformPages, checked,
                   validPages, publishers, fpc, fi, titleField, clipboard,
                   clipOwner, imageIndex, bodyText>>
    /\ UNCHANGED monVars
    /\ UNCHANGED docVars
    /\ UNCHANGED cfgVars
    /\ UNCHANGED lifeVars

\* ------------------------------------------------------ steps 3-4 barriers
\* Fault: step 3 without its wg.Wait().
FillWgWaitSkipped == TRUE

\* wg.Wait() after the fillPlatformContent goroutines.
FillWgWait == \A p \in publishers : fpc[p] = "done"

\* unifiedPublishFlow after step 3: enter the image loop, or finish when the
\* article has no image.
FillWaitDone ==
    /\ pc = "FillWait"
    /\ FillWgWait
    /\ imageIndex' = 0
    /\ pc' = IF Len(Art.Images) > 0 THEN "ImageLoop" ELSE "FlowDone"
    /\ UNCHANGED <<platforms, articles, url, opc, platformPages, checked,
                   validPages, publishers, fpc, fi, titleField, editor, cursor,
                   clipboard, clipOwner, rpc, log, bodyText>>
    /\ UNCHANGED monVars
    /\ UNCHANGED docVars
    /\ UNCHANGED cfgVars
    /\ UNCHANGED lifeVars

\* replaceImageInAllPlatforms(publishers, imageIndex, image): one goroutine
\* per publisher calling replaceImageByIndex -> ReplaceTextWithImage.
replaceImageInAllPlatforms ==
    /\ pc = "ImageLoop"
    /\ imageIndex < Len(Art.Images)
    /\ rpc' = [t \in TaskIds |->
                  IF t[1] \in publishers /\ t[2] = imageIndex /\ t[3] = "unified"
                  THEN "find" ELSE rpc[t]]
    /\ pc' = "ImageWait"
    /\ UNCHANGED <<platforms, articles, url, opc, platformPages, checked,
                   validPages, publishers, fpc, fi, titleField, editor, cursor,
                   clipboard, clipOwner, imageIndex, log, bodyText>>
    /\ UNCHANGED monVars
    /\ UNCHANGED docVars
    /\ UNCHANGED cfgVars
    /\ UNCHANGED lifeVars

\* Fault: a replace goroutine never calls wg.Done().
ReplaceWgWaitNever(i) == FALSE

\* Fault: replaceImageInAllPlatforms without its wg.Wait().
ReplaceWgWaitSkipped(i) == TRUE

\* wg.Wait() at the end of replaceImageInAllPlatforms.
ReplaceWgWait(i) == \A p \in publishers : rpc[<<p, i, "unified">>] = "done"

\* Fault: the step-4 loop ends after an image whose replace call failed on
\* some platform.
ImageLoopStopsOnError(i) ==
    /\ i + 1 < Len(Art.Images)
    /\ \A p \in publishers : \A k \in 1..Len(log[p]) :
          (log[p][k].ev = "replEnd" /\ log[p][k].i = i /\ log[p][k].stage = "unified")
              => log[p][k].res = "ok"

\* for imageIndex := 0; imageIndex < len(article.Images); imageIndex++: the
\* loop goes on after image i whatever replaceImageInAllPlatforms logged.
ImageLoopGoesOn(i) == i + 1 < Len(Art.Images)

\* Back in the step-4 loop: next image, or the flow is over.
ImageWaitDone ==
    /\ pc = "ImageWait"
    /\ ReplaceWgWait(imageIndex)
    /\ imageIndex' = imageIndex + 1
    /\ pc' = IF ImageLoopGoesOn(imageIndex) THEN "ImageLoop" ELSE "FlowDone"
    /\ UNCHANGED <<platforms, articles, url, opc, platformPages, checked,
                   validPages, publishers, fpc, fi, titleField, editor, cursor,
                   clipboard, clipOwner, rpc, log, bodyText>>
    /\ UNCHANGED monVars
    /\ UNCHANGED docVars
    /\ UNCHANGED cfgVars
    /\ UNCHANGED lifeVars

\* ------------------------------------------------------------------- Next
\* The steps the program takes by itself.
ProgramStep ==
    \/ OpenPlatformsStart
    \/ \E p \in Platforms : openPlatform(p)
    \/ OpenWaitDone
    \/ \E p \in Platforms : waitForPlatformEditor(p)
    \/ SFWaitEntry
    \/ SFLoginTick
    \/ SFEditorCheck
    \/ ReadyLoopDone
    \/ \E p \in Platforms : PublishArticle(p)
    \/ SelectAndCopyContent
    \/ PasteToEditor
    \/ SFPublishArticle
    \/ SFReplaceLoop
    \/ \E t \in TaskIds : CopyImageToClipboard(t)
    \/ \E t \in TaskIds : PasteImageToEditor(t)
    \/ FillWaitDone
    \/ replaceImageInAllPlatforms
    \/ ImageWaitDone

Next ==
    \/ ProgramStep
    \/ \E p \in Platforms : UserNavigates(p)

Spec == Init /\ [][Next]_vars

\* The Go scheduler keeps running the program's goroutines; nothing makes the
\* user act.
SpecFair == Spec /\ WF_vars(ProgramStep)

\* ------------------------------------------------- placeholder documents
\* The documents of one article, each computed by its own function; dpc is
\* the set of documents computed so far.
DocNames == {"text", "markdown", "joined", "orch"}

\* The placeholder of every image index, as the step-4 loop of
\* unifiedPublishFlow passes them to replaceImageInAllPlatforms.
OrchestratorPlaceholders(art) ==
    [k \in 1..Len(art.Images) |-> OrchestratorPlaceholder(k - 1)]

DocOf(name, art) ==
    CASE name = "text"     -> PrepareTextWithPlaceholders(art)
      [] name = "markdown" -> PrepareMarkdownWithPlaceholders(art)
      [] name = "joined"   -> JoinLines(art.Content)
      [] name = "orch"     -> OrchestratorPlaceholders(art)

ComputeDoc(name) ==
    /\ pc = "Docs"
    /\ name \notin dpc
    /\ docs' = [docs EXCEPT ![name] = DocOf(name, Art)]
    /\ dpc' = dpc \cup {name}
    /\ UNCHANGED <<platforms, articles, url>>
    /\ UNCHANGED flowVars
    /\ UNCHANGED monVars
    /\ UNCHANGED lifeVars
    /\ UNCHANGED cfgVars

\* PrepareTextWithPlaceholders of the article.
DocText == ComputeDoc("text")

\* PrepareMarkdownWithPlaceholders of the article.
DocMarkdown == ComputeDoc("markdown")

\* strings.Join(article.Content, "\n") of segmentfault fillContent.
DocJoined == ComputeDoc("joined")

\* The placeholders of the step-4 loop.
DocOrch == ComputeDoc("orch")

\* One parsed article; nothing has run.
InitDoc ==
    /\ InitCommon
    /\ platforms = {Juejin}
    /\ articles \in { <<a>> : a \in Articles }
    /\ pc = "Docs"

NextDoc ==
    \/ DocText
    \/ DocMarkdown
    \/ DocJoined
    \/ DocOrch

SpecDoc == InitDoc /\ [][NextDoc]_vars

\* ------------------------------------------------------------ login checkers
CheckerPlatforms == {Cnblogs, Zhihu}

LoginPlatforms == {Cnblogs, Zhihu, SegmentFault}

\* cnblogs / zhihu LoginChecker.CheckAndWaitForLogin, entry: read the URL;
\* return at once unless it is the sign-in route.
CheckAndWaitForLogin(p) ==
    /\ p \in CheckerPlatforms
    /\ p \in platformPages
    /\ mon[p] = "Unknown"
    /\ observed' = [observed EXCEPT ![p] = Append(@, url[p])]
    /\ mon' = [mon EXCEPT ![p] = IF url[p] = "login" THEN "AwaitingLogin" ELSE "Returned"]
    /\ UNCHANGED <<platforms, articles, url>>
    /\ UNCHANGED flowVars
    /\ UNCHANGED <<monSaves, monNavs, saveCount>>
    /\ UNCHANGED docVars
    /\ UNCHANGED cfgVars
    /\ UNCHANGED lifeVars

\* zhihu LoginChecker.publishArticles after the login: the first article is
\* published on the page.
publishArticles(p) ==
    IF p = Zhihu /\ Len(articles) > 0
    THEN log' = [log EXCEPT ![p] = Append(@, Ev("publishArticles", -1, "login", "", "", ""))]
    ELSE UNCHANGED log

\* CheckAndWaitForLogin, one tick of the 1 s ticker: read the URL; off the
\* sign-in route: call saveSession (the manager's SaveSession), go back to
\* originalURL unless already on the editor route, (zhihu) publish, return.
LoginCheckerTick(p) ==
    /\ p \in CheckerPlatforms
    /\ mon[p] = "AwaitingLogin"
    /\ IF LeftLoginRoute(url[p])
       THEN /\ observed' = [observed EXCEPT ![p] = Append(@, url[p])]
            /\ SaveSession
            /\ monSaves' = [monSaves EXCEPT ![p] = @ + 1]
            /\ IF url[p] # "editor"
               THEN /\ monNavs' = [monNavs EXCEPT ![p] = @ + 1]
                    /\ \E r \in {"gotoFailed", "editor", "login"} :
                          url' = [url EXCEPT ![p] = IF r = "gotoFailed" THEN @ ELSE r]
               ELSE UNCHANGED <<monNavs, url>>
            /\ publishArticles(p)
            /\ mon' = [mon EXCEPT ![p] = "LoggedIn"]
       ELSE /\ observed' = [observed EXCEPT ![p] = PollRecord(@, url[p])]
            /\ UNCHANGED <<saveCount, monSaves, monNavs, url, mon, log>>
    /\ UNCHANGED <<platforms, articles, pc, opc, platformPages, checked,
                   validPages, publishers, fpc, fi, titleField, editor, cursor,
                   clipboard, clipOwner, rpc, imageIndex, bodyText>>
    /\ UNCHANGED docVars
    /\ UNCHANGED cfgVars
    /\ UNCHANGED lifeVars

\* tryPublishToSegmentFault, entry (called by tryPublishArticle when an article
\* is queued): read the URL; return at once unless it is the login route.
tryPublishToSegmentFault ==
    /\ pc = "tryPublishArticle"
    /\ Len(articles) > 0
    /\ SegmentFault \in platformPages
    /\ observed' = [observed EXCEPT ![SegmentFault] = Append(@, url[SegmentFault])]
    /\ IF url[SegmentFault] = "login"
       THEN /\ mon' = [mon EXCEPT ![SegmentFault] = "AwaitingLogin"]
            /\ pc' = "tryPublishPoll"
       ELSE /\ mon' = [mon EXCEPT ![SegmentFault] = "Returned"]
            /\ pc' = "tryPublishDone"
    /\ UNCHANGED <<platforms, articles, url, opc, platformPages, checked,
                   validPages, publishers, fpc, fi, titleField, editor, cursor,
                   clipboard, clipOwner, rpc, imageIndex, log, bodyText>>
    /\ UNCHANGED <<monSaves, monNavs, saveCount>>
    /\ UNCHANGED docVars
    /\ UNCHANGED cfgVars
    /\ UNCHANGED lifeVars

\* tryPublishToSegmentFault, one tick of the 1 s ticker: read the URL; off the
\* login route: SaveSession, page.Goto(segmentfault.URL()) whatever the URL
\* is, return if the Goto failed, else publish the first article, return.
tryPublishToSegmentFaultTick ==
    /\ pc = "tryPublishPoll"
    /\ IF LeftLoginRoute(url[SegmentFault])
       THEN /\ observed' = [observed EXCEPT ![SegmentFault] = Append(@, url[SegmentFault])]
            /\ SaveSession
            /\ monSaves' = [monSaves EXCEPT ![SegmentFault] = @ + 1]
            /\ monNavs' = [monNavs EXCEPT ![SegmentFault] = @ + 1]
            /\ \E r \in {"gotoFailed", "editor", "login"} :
                  /\ url' = [url EXCEPT ![SegmentFault] = IF r = "gotoFailed" THEN @ ELSE r]
                  /\ log' = [log EXCEPT ![SegmentFault] =
                                IF r = "gotoFailed" THEN @
                                ELSE Append(@, Ev("publishArticles", -1, "login", "", "", ""))]
            /\ mon' = [mon EXCEPT ![SegmentFault] = "LoggedIn"]
            /\ pc' = "tryPublishDone"
       ELSE /\ observed' = [observed EXCEPT ![SegmentFault] = PollRecord(@, url[SegmentFault])]
            /\ UNCHANGED <<saveCount, monSaves, monNavs, url, mon, log, pc>>
    /\ UNCHANGED <<platforms, articles, opc, platformPages, checked,
                   validPages, publishers, fpc, fi, titleField, editor, cursor,
                   clipboard, clipOwner, rpc, imageIndex, bodyText>>
    /\ UNCHANGED docVars
    /\ UNCHANGED cfgVars
    /\ UNCHANGED lifeVars

\* The pages are open, each on its login route, its editor or elsewhere, and
\* the SegmentFault page is about to be handled by the flow's readiness wait
\* or by tryPublishArticle.
InitLogin ==
    /\ url \in { u \in [Platforms -> {"none", "login", "editor", "other"}] :
                    \A p \in Platforms : (u[p] = "none") <=> (p \notin LoginPlatforms) }
    /\ opc = [p \in Platforms |-> IF p \in LoginPlatforms THEN "done" ELSE "idle"]
    /\ platformPages = LoginPlatforms
    /\ checked = {}
    /\ validPages = {}
    /\ publishers = {}
    /\ fpc = [p \in Platforms |-> "none"]
    /\ fi = 0
    /\ titleField = [p \in Platforms |-> ""]
    /\ editor = [p \in Platforms |-> <<>>]
    /\ cursor = [p \in Platforms |-> 1]
    /\ clipboard = <<>>
    /\ clipOwner = NoOwner
    /\ rpc = [t \in TaskIds |-> "none"]
    /\ imageIndex = 0
    /\ log = [p \in Platforms |-> <<>>]
    /\ bodyText = [p \in Platforms |-> <<>>]
    /\ mon = [p \in Platforms |-> "Unknown"]
    /\ observed = [p \in Platforms |-> <<>>]
    /\ monSaves = [p \in Platforms |-> 0]
    /\ monNavs = [p \in Platforms |-> 0]
    /\ saveCount = 0
    /\ docs = NoDocs
    /\ dpc = {}
    /\ publishSection = NoSection
    /\ enabledPlatforms = NoPlatforms
    /\ InitLife
    /\ platforms = LoginPlatforms
    /\ articles \in { <<ParseFile("Hello", c)>> : c \in {<< <<TxtSeg("a")>>, <<TxtSeg("b")>> >>} }
    /\ pc \in {"ReadyLoop", "tryPublishArticle"}

NextLogin ==
    \/ \E p \in Platforms : UserNavigates(p)
    \/ \E p \in Platforms : CheckAndWaitForLogin(p)
    \/ \E p \in Platforms : LoginCheckerTick(p)
    \/ SFWaitEntry
    \/ SFLoginTick
    \/ SFEditorCheck
    \/ tryPublishToSegmentFault
    \/ tryPublishToSegmentFaultTick

SpecLogin == InitLogin /\ [][NextLogin]_vars

\* ---------------------------------------------------- lifecycle and saves
\* main: NewManager, defer Close, OpenPlatforms, WaitForExit.  OpenPlatforms
\* is followed here only through its phases (pages being opened, the publish
\* flow, the login wait and its post-login save); SaveSession is followed
\* call by call and step by step.
\* Every step below is a step of the running process.
Running == proc = "running"

\* A call of Manager.SaveSession by goroutine g begins.
CallSaveSession(g) ==
    /\ spc' = [spc EXCEPT ![g] = "StorageState"]
    /\ fileWrite' = [fileWrite EXCEPT ![g] = "none"]
    /\ saveRet' = [saveRet EXCEPT ![g] = "none"]

\* Manager.Close has closed the context.
ContextClosed == \E k \in 1..Len(shutdown) : shutdown[k].step = "context.Close"

\* SaveSession returns the err of `state, err := m.context.StorageState()`:
\* `data, err := json.Marshal(state)` declares a new err inside the if block
\* and `err = os.WriteFile(...)` assigns that one.
SaveSessionErr(storageErr, writeErr) == storageErr

\* SaveSession: m.context.StorageState(), which fails once the context is
\* closed or the browser is gone; on an error SaveSession returns it.
SaveSessionStorageState(g) ==
    /\ Running
    /\ spc[g] = "StorageState"
    /\ \E err \in (IF connected /\ ~ContextClosed THEN {"nil", "error"} ELSE {"error"}) :
          IF err = "nil"
          THEN /\ spc' = [spc EXCEPT ![g] = "WriteFile"]
               /\ UNCHANGED saveRet
          ELSE /\ spc' = [spc EXCEPT ![g] = "returned"]
               /\ saveRet' = [saveRet EXCEPT ![g] = SaveSessionErr(err, "nil")]
    /\ UNCHANGED <<proc, notified, closing, connected, closeCalls, closeStep,
                   shutdown, fileWrite>>
    /\ UNCHANGED <<platforms, articles, url>>
    /\ UNCHANGED flowVars
    /\ UNCHANGED monVars
    /\ UNCHANGED docVars
    /\ UNCHANGED cfgVars

\* SaveSession: json.Marshal, then os.WriteFile opens state.json and starts
\* to write; no lock is taken (saveMutex is never locked).
SaveSessionWriteFile(g) ==
    /\ Running
    /\ spc[g] = "WriteFile"
    /\ spc' = [spc EXCEPT ![g] = "writing"]
    /\ UNCHANGED <<proc, notified, closing, connected, closeCalls, closeStep,
                   shutdown, fileWrite, saveRet>>
    /\ UNCHANGED <<platforms, articles, url>>
    /\ UNCHANGED flowVars
    /\ UNCHANGED monVars
    /\ UNCHANGED docVars
    /\ UNCHANGED cfgVars

\* SaveSession: os.WriteFile returns nil or an error, and SaveSession
\* returns.
SaveSessionReturns(g) ==
    /\ Running
    /\ spc[g] = "writing"
    /\ \E werr \in {"nil", "error"} :
          /\ fileWrite' = [fileWrite EXCEPT ![g] = IF werr = "nil" THEN "ok" ELSE "failed"]
          /\ saveRet' = [saveRet EXCEPT ![g] = SaveSessionErr("nil", werr)]
    /\ spc' = [spc EXCEPT ![g] = "returned"]
    /\ saveCount' = saveCount + 1
    /\ UNCHANGED <<proc, notified, closing, connected, closeCalls, closeStep,
                   shutdown>>
    /\ UNCHANGED <<platforms, articles, url>>
    /\ UNCHANGED flowVars
    /\ UNCHANGED <<mon, observed, monSaves, monNavs>>
    /\ UNCHANGED docVars
    /\ UNCHANGED cfgVars

\* main: OpenPlatforms has opened the pages and calls unifiedPublishFlow.
MainPagesOpened ==
    /\ Running
    /\ pc = "OpenPlatforms"
    /\ pc' = "unifiedPublishFlow"
    /\ UNCHANGED <<platforms, articles, url, opc, platformPages, checked,
                   validPages, publishers, fpc, fi, titleField, editor, cursor,
                   clipboard, clipOwner, rpc, imageIndex, log, bodyText>>
    /\ UNCHANGED monVars
    /\ UNCHANGED docVars
    /\ UNCHANGED cfgVars
    /\ UNCHANGED lifeVars

\* main: the flow's readiness loop enters the login wait of
\* waitForSegmentFaultEditor.
MainLoginWait ==
    /\ Running
    /\ pc = "unifiedPublishFlow"
    /\ spc["main"] = "idle"
    /\ pc' = "SFLoginPoll"
    /\ UNCHANGED <<platforms, articles, url, opc, platformPages, checked,
                   validPages, publishers, fpc, fi, titleField, editor, cursor,
                   clipboard, clipOwner, rpc, imageIndex, log, bodyText>>
    /\ UNCHANGED monVars
    /\ UNCHANGED docVars
    /\ UNCHANGED cfgVars
    /\ UNCHANGED lifeVars

\* main: the login wait sees the page off the login route and calls
\* SaveSession.
MainPostLoginSave ==
    /\ Running
    /\ pc = "SFLoginPoll"
    /\ CallSaveSession("main")
    /\ pc' = "PostLoginSave"
    /\ UNCHANGED <<proc, notified, closing, connected, closeCalls, closeStep,
                   shutdown>>
    /\ UNCHANGED <<platforms, articles, url, opc, platformPages, checked,
                   validPages, publishers, fpc, fi, titleField, editor, cursor,
                   clipboard, clipOwner, rpc, imageIndex, log, bodyText>>
    /\ UNCHANGED monVars
    /\ UNCHANGED docVars
    /\ UNCHANGED cfgVars

\* main: unifiedPublishFlow and OpenPlatforms return; main calls
\* WaitForExit.
MainFlowDone ==
    /\ Running
    /\ \/ pc = "unifiedPublishFlow"
       \/ pc = "PostLoginSave" /\ spc["main"] = "returned"
    /\ pc' = "WaitForExit"
    /\ UNCHANGED <<platforms, articles, url, opc, platformPages, checked,
                   validPages, publishers, fpc, fi, titleField, editor, cursor,
                   clipboard, clipOwner, rpc, imageIndex, log, bodyText>>
    /\ UNCHANGED monVars
    /\ UNCHANGED docVars
    /\ UNCHANGED cfgVars
    /\ UNCHANGED lifeVars

\* WaitForExit: signal.Notify(c, os.Interrupt, syscall.SIGTERM), then
\* block on <-c.
WaitForExit ==
    /\ Running
    /\ pc = "WaitForExit"
    /\ notified' = TRUE
    /\ pc' = "AwaitSignal"
    /\ UNCHANGED <<proc, closing, connected, closeCalls, closeStep, shutdown,
                   spc, fileWrite, saveRet>>
    /\ UNCHANGED <<platforms, articles, url, opc, platformPages, checked,
                   validPages, publishers, fpc, fi, titleField, editor, cursor,
                   clipboard, clipOwner, rpc, imageIndex, log, bodyText>>
    /\ UNCHANGED monVars
    /\ UNCHANGED docVars
    /\ UNCHANGED cfgVars

\* SIGINT or SIGTERM is delivered.  Before signal.Notify the Go runtime's
\* default action ends the process at once: no deferred call runs.  After
\* it the signal goes to the channel and WaitForExit calls Close.
Signal ==
    /\ Running
    /\ IF ~notified
       THEN /\ proc' = "killed"
            /\ UNCHANGED pc
       ELSE /\ pc = "AwaitSignal"
            /\ pc' = "Close"
            /\ UNCHANGED proc
    /\ UNCHANGED <<notified, closing, connected, closeCalls, closeStep,
                   shutdown, spc, fileWrite, saveRet>>
    /\ UNCHANGED <<platforms, articles, url, opc, platformPages, checked,
                   validPages, publishers, fpc, fi, titleField, editor, cursor,
                   clipboard, clipOwner, rpc, imageIndex, log, bodyText>>
    /\ UNCHANGED monVars
    /\ UNCHANGED docVars
    /\ UNCHANGED cfgVars

\* Fault: Close stops the runtime first and saves last.
CloseStepsRuntimeFirst ==
    <<"pw.Stop", "context.Close", "browser.Close", "SaveSession">>

\* The calls of Manager.Close after m.closing = true, in program order.
CloseSteps == <<"SaveSession", "context.Close", "browser.Close", "pw.Stop">>

\* Manager.Close, entry: m.closing = true.
CloseEntry ==
    /\ Running
    /\ pc = "Close"
    /\ closing' = TRUE
    /\ closeCalls' = closeCalls + 1
    /\ closeStep' = 1
    /\ pc' = "CloseSteps"
    /\ UNCHANGED <<proc, notified, connected, shutdown, spc, fileWrite, saveRet>>
    /\ UNCHANGED <<platforms, articles, url, opc, platformPages, checked,
                   validPages, publishers, fpc, fi, titleField, editor, cursor,
                   clipboard, clipOwner, rpc, imageIndex, log, bodyText>>
    /\ UNCHANGED monVars
    /\ UNCHANGED docVars
    /\ UNCHANGED cfgVars

\* The entry Close appends to shutdown when a step has returned.
CloseEv(step) == [call |-> closeCalls, step |-> step]

\* Manager.Close, the next call: SaveSession is entered, or context.Close,
\* browser.Close (the browser disconnects) or pw.Stop runs and returns.
CloseStep ==
    /\ Running
    /\ pc = "CloseSteps"
    /\ closeStep <= Len(CloseSteps)
    /\ IF CloseSteps[closeStep] = "SaveSession"
       THEN /\ CallSaveSession("main")
            /\ pc' = "CloseSave"
            /\ UNCHANGED <<shutdown, closeStep, connected>>
       ELSE /\ shutdown' = Append(shutdown, CloseEv(CloseSteps[closeStep]))
            /\ closeStep' = closeStep + 1
            /\ connected' =
                  (connected /\ CloseSteps[closeStep] \notin {"browser.Close", "pw.Stop"})
            /\ UNCHANGED <<pc, spc, fileWrite, saveRet>>
    /\ UNCHANGED <<proc, notified, closing, closeCalls>>
    /\ UNCHANGED <<platforms, articles, url, opc, platformPages, checked,
                   validPages, publishers, fpc, fi, titleField, editor, cursor,
                   clipboard, clipOwner, rpc, imageIndex, log, bodyText>>
    /\ UNCHANGED monVars
    /\ UNCHANGED docVars
    /\ UNCHANGED cfgVars

\* Manager.Close: SaveSession has returned; its error is only logged.
CloseSaveReturned ==
    /\ Running
    /\ pc = "CloseSave"
    /\ spc["main"] = "returned"
    /\ shutdown' = Append(shutdown, CloseEv("SaveSession"))
    /\ closeStep' = closeStep + 1
    /\ pc' = "CloseSteps"
    /\ UNCHANGED <<proc, notified, closing, connected, closeCalls, spc,
                   fileWrite, saveRet>>
    /\ UNCHANGED <<platforms, articles, url, opc, platformPages, checked,
                   validPages, publishers, fpc, fi, titleField, editor, cursor,
                   clipboard, clipOwner, rpc, imageIndex, log, bodyText>>
    /\ UNCHANGED monVars
    /\ UNCHANGED docVars
    /\ UNCHANGED cfgVars

\* Manager.Close returns.  The first time WaitForExit and main return and
\* the deferred browserManager.Close() runs; the second time the process
\* exits.
CloseReturns ==
    /\ Running
    /\ pc = "CloseSteps"
    /\ closeStep > Len(CloseSteps)
    /\ IF closeCalls = 1
       THEN /\ pc' = "Close"
            /\ UNCHANGED proc
       ELSE /\ pc' = "Exit"
            /\ proc' = "exited"
    /\ UNCHANGED <<notified, closing, connected, closeCalls, closeStep,
                   shutdown, spc, fileWrite, saveRet>>
    /\ UNCHANGED <<platforms, articles, url, opc, platformPages, checked,
                   validPages, publishers, fpc, fi, titleField, editor, cursor,
                   clipboard, clipOwner, rpc, imageIndex, log, bodyText>>
    /\ UNCHANGED monVars
    /\ UNCHANGED docVars
    /\ UNCHANGED cfgVars

\* The user closes the browser window, or the browser dies.
BrowserGone ==
    /\ Running
    /\ connected
    /\ connected' = FALSE
    /\ UNCHANGED <<proc, notified, closing, closeCalls, closeStep, shutdown,
                   spc, fileWrite, saveRet>>
    /\ UNCHANGED <<platforms, articles, url>>
    /\ UNCHANGED flowVars
    /\ UNCHANGED monVars
    /\ UNCHANGED docVars
    /\ UNCHANGED cfgVars

\* Fault: the handler saves whatever m.closing says.
HandlerSavesAlways == TRUE

\* if !manager.closing { ... manager.SaveSession() ... }: m.closing is a plain
\* bool; the read follows the event, so a disconnect that Close caused is
\* handled after Close wrote it.
HandlerSaves == ~closing

\* browser.On("disconnected"), run on the event goroutine: if !m.closing,
\* call SaveSession.
DisconnectedHandler ==
    /\ Running
    /\ ~connected
    /\ spc["handler"] = "idle"
    /\ IF HandlerSaves
       THEN CallSaveSession("handler")
       ELSE /\ spc' = [spc EXCEPT !["handler"] = "skipped"]
            /\ UNCHANGED <<fileWrite, saveRet>>
    /\ UNCHANGED <<proc, notified, closing, connected, closeCalls, closeStep,
                   shutdown>>
    /\ UNCHANGED <<platforms, articles, url>>
    /\ UNCHANGED flowVars
    /\ UNCHANGED monVars
    /\ UNCHANGED docVars
    /\ UNCHANGED cfgVars

\* A login checker, on its own goroutine (go func() of
\* platform.Manager.CheckAndWaitForLogin), sees the login done and calls
\* saveSession, which is Manager.SaveSession.
CheckerPostLoginSave(g) ==
    /\ Running
    /\ g \in CheckerPlatforms
    /\ spc[g] = "idle"
    /\ CallSaveSession(g)
    /\ UNCHANGED <<proc, notified, closing, connected, closeCalls, closeStep,
                   shutdown>>
    /\ UNCHANGED <<platforms, articles, url>>
    /\ UNCHANGED flowVars
    /\ UNCHANGED monVars
    /\ UNCHANGED docVars
    /\ UNCHANGED cfgVars

\* main has called NewManager and deferred Close; OpenPlatforms starts.
InitMain ==
    /\ InitCommon
    /\ platforms = LoginPlatforms
    /\ articles = <<>>
    /\ pc = "OpenPlatforms"

NextLife ==
    \/ MainPagesOpened
    \/ MainLoginWait
    \/ MainPostLoginSave
    \/ MainFlowDone
    \/ WaitForExit
    \/ Signal
    \/ CloseEntry
    \/ CloseStep
    \/ CloseSaveReturned
    \/ CloseReturns
    \/ BrowserGone
    \/ DisconnectedHandler
    \/ \E g \in Savers : CheckerPostLoginSave(g)
    \/ \E g \in Savers : SaveSessionStorageState(g)
    \/ \E g \in Savers : SaveSessionWriteFile(g)
    \/ \E g \in Savers : SaveSessionReturns(g)

SpecLife == InitMain /\ [][NextLife]_vars

\* ------------------------------------------------------- repeated fillTitle
\* The site has put a draft title into the title input before any fill.
DraftRestored(p) ==
    /\ pc = "Titles"
    /\ p \in platforms
    /\ log[p] = <<>>
    /\ titleField[p] = ""
    /\ titleField' = [titleField EXCEPT ![p] = "Draft"]
    /\ UNCHANGED <<platforms, articles, url, pc, opc, platformPages, checked,
                   validPages, publishers, fpc, fi, editor, cursor, clipboard,
                   clipOwner, rpc, imageIndex, log, bodyText>>
    /\ UNCHANGED monVars
    /\ UNCHANGED docVars
    /\ UNCHANGED cfgVars
    /\ UNCHANGED lifeVars

\* Publisher.fillTitle(article.Title) of juejin and segmentfault: wait for
\* the title input (timeout: return the error), then titleLocator.Fill.
fillTitle(p) ==
    /\ pc = "Titles"
    /\ p \in platforms
    /\ Len(log[p]) < MaxTitleCalls
    /\ \E ok \in BOOLEAN :
          /\ titleField' = [titleField EXCEPT ![p] = IF ok THEN Fill(@, Art.Title) ELSE @]
          /\ log' = [log EXCEPT ![p] = Append(@, TitleEv(ok))]
    /\ UNCHANGED <<platforms, articles, url, pc, opc, platformPages, checked,
                   validPages, publishers, fpc, fi, editor, cursor, clipboard,
                   clipOwner, rpc, imageIndex, bodyText>>
    /\ UNCHANGED monVars
    /\ UNCHANGED docVars
    /\ UNCHANGED cfgVars
    /\ UNCHANGED lifeVars

\* Two pages with empty title inputs and one article; nothing has run.
InitTitle ==
    /\ InitCommon
    /\ platforms = {Juejin, SegmentFault}
    /\ articles \in { <<ParseFile(t, << <<TxtSeg("a")>> >>)>> : t \in {"Hello", "Draft"} }
    /\ pc = "Titles"

NextTitle ==
    \/ \E p \in Platforms : DraftRestored(p)
    \/ \E p \in Platforms : fillTitle(p)

SpecTitle == InitTitle /\ [][NextTitle]_vars

\* ===================================================================== claims
\* The article of C8: three body lines, one image on line 1.
OneImageArticle ==
    ParseFile("Hello", << <<TxtSeg("a")>>, <<ImgSeg("x", "X.png")>>, <<TxtSeg("b")>> >>)

\* The positions of the log of p that hold an event ev.
EvPositions(p, ev) == { k \in 1..Len(log[p]) : log[p][k].ev = ev }

\* The body fill of p has returned without error.
BodyWritten(p) ==
    \E k \in EvPositions(p, "bodyEnd") : log[p][k].res = "ok"

\* C1: in step 4, once any publisher's replace call for image index i+1 has
\* started, the replace call for index i of every publisher has returned.
C1_IndexBarrier ==
    \A p \in publishers, q \in publishers, i \in 0..(MaxFlowImages - 2) :
        rpc[<<p, i + 1, "unified">>] # "none" => rpc[<<q, i, "unified">>] = "done"

\* Two publishers, and a replace call for image index 1 is running.
C1_Witness ==
    /\ Cardinality(publishers) >= 2
    /\ \E p \in publishers : rpc[<<p, 1, "unified">>] \in {"find", "paste"}

\* C2: a publisher's clipboard write and its paste are not atomic: while it
\* is between the two, the clipboard may hold another publisher's write, and
\* that write can only be one of the same image index of step 4.
C2_RaceWithinIndex ==
    \A p \in publishers, i \in 0..(MaxFlowImages - 1) :
        rpc[<<p, i, "unified">>] = "paste" =>
            /\ clipOwner.p \in publishers
            /\ clipOwner.i = i
            /\ clipOwner.stage = "unified"

\* Publisher p has written the clipboard and not pasted yet, and publisher q
\* has written the clipboard since.
C2_Witness ==
    \E p \in publishers, q \in publishers, i \in 0..(MaxFlowImages - 1) :
        /\ p # q
        /\ rpc[<<p, i, "unified">>] = "paste"
        /\ clipOwner = [p |-> q, i |-> i, stage |-> "unified"]

\* C3: a replace call has been issued only by step 4 and only after the fill
\* of every publisher has returned.
C3_NoReplaceBeforeAllFilled ==
    \A t \in TaskIds :
        rpc[t] # "none" =>
            /\ t[3] = "unified"
            /\ \A p \in publishers : fpc[p] = "done"

\* C4: on each platform the body fill is preceded by the title fill, and
\* every replace call is preceded by the end of the body fill.
C4_FillOrder ==
    \A p \in Platforms :
        /\ \A k \in EvPositions(p, "bodyStart") :
              \E j \in EvPositions(p, "title") : j < k
        /\ \A k \in EvPositions(p, "replStart") :
              \E j \in EvPositions(p, "bodyEnd") : j < k

\* C5: for every image k, line images[k].LineIndex of the placeholder
\* document is the placeholder the orchestrator passes for image k.
C5_PlaceholderOnOwnLine ==
    dpc = DocNames =>
        \A k \in 1..Len(Art.Images) :
            LET lines == SplitLines(docs.text)
                l     == Art.Images[k].LineIndex + 1
            IN /\ l <= Len(lines)
               /\ lines[l] = << TxtSeg(docs.orch[k]) >>

\* A line that is a placeholder token.
IsPlaceholderLine(line) ==
    \E n \in 0..(2 * MaxLines) : line = << TxtSeg(PlaceholderStr(n)) >>

\* The claimed shape of a placeholder document of article art.
WellShapedDoc(doc, art) ==
    LET lines  == SplitLines(doc)
        tokens == { l \in 1..Len(lines) : IsPlaceholderLine(lines[l]) }
    IN /\ Len(lines) = Len(art.Content)
       /\ Cardinality(tokens) = Len(art.Images)
       /\ \A l \in tokens :
             \E n \in 0..(Len(art.Images) - 1) : lines[l] = << TxtSeg(PlaceholderStr(n)) >>
       /\ \A l1 \in tokens, l2 \in tokens : l1 # l2 => lines[l1] # lines[l2]

\* C6: the placeholder document has as many lines as the body, exactly
\* |images| of them are placeholder tokens, each unique and numbered in
\* [0, |images|).
C6_DocShape ==
    dpc = DocNames => WellShapedDoc(docs.text, Art) /\ WellShapedDoc(docs.markdown, Art)

\* C7: the body text every publisher writes into its editor is the
\* placeholder document of the article.
C7_BodyIsPlaceholderDocument ==
    \A p \in publishers :
        BodyWritten(p) => bodyText[p] = PrepareTextWithPlaceholders(Art)

\* C8: for the article with one image on line 1 of 3, at the end of the run
\* every publisher has had exactly one replace call, with IMAGE_PLACEHOLDER_0
\* and the image's path.
C8_ReplaceExactlyOnce ==
    (pc = "FlowDone" /\ articles = <<OneImageArticle>>) =>
        \A p \in publishers :
            /\ Cardinality(EvPositions(p, "replStart")) = 1
            /\ \A k \in EvPositions(p, "replStart") :
                  /\ log[p][k].ph = "IMAGE_PLACEHOLDER_0"
                  /\ log[p][k].path = "X.png"

\* The URLs a login wait has read are login routes up to position n.
AllLoginUpTo(p, n) == \A k \in 1..n : observed[p][k] = "login"

\* C9: a login wait is LoggedIn only when the last URL it read is the first
\* non-login one, and then it has saved the session exactly once; before
\* that it has saved nothing; after reading [login, login, other] it is
\* LoggedIn.
C9_LoggedInOnce ==
    \A p \in LoginPlatforms :
        /\ mon[p] = "LoggedIn" =>
              /\ monSaves[p] = 1
              /\ Len(observed[p]) >= 2
              /\ observed[p][Len(observed[p])] # "login"
              /\ AllLoginUpTo(p, Len(observed[p]) - 1)
        /\ mon[p] # "LoggedIn" => monSaves[p] = 0
        /\ mon[p] = "AwaitingLogin" => AllLoginUpTo(p, Len(observed[p]))
        /\ observed[p] = <<"login", "login", "other">> => mon[p] = "LoggedIn"
        /\ saveCount = monSaves[Cnblogs] + monSaves[Zhihu] + monSaves[SegmentFault]

\* Every login wait has read [login, login, other] and is LoggedIn.
C9_Witness ==
    \A p \in LoginPlatforms :
        /\ observed[p] = <<"login", "login", "other">>
        /\ mon[p] = "LoggedIn"

\* C10: while the SegmentFault page waits on its login route, the readiness
\* check of every other opened page that has not been checked yet can run.
C10_LoginWaitBlocksNobody ==
    \A q \in platformPages \ (checked \cup {SegmentFault}) :
        mon[SegmentFault] = "AwaitingLogin" => ENABLED waitForPlatformEditor(q)

\* C11: every readiness wait that has started returns: the page it was
\* started for ends up checked, also when the page never leaves its login
\* route.
C11_WaitReturns ==
    (pc \in {"SFLoginPoll", "SFEditorCheck"}) ~> (SegmentFault \in checked)

\* C12: every opened platform whose readiness wait did not report ready has
\* had its login wait started by the time the publish flow is over.
C12_NotReadyHandedToMonitor ==
    (pc = "FlowDone" /\ Len(articles) > 0) =>
        \A p \in checked \ validPages : mon[p] # "Unknown"

\* C13: whenever a login checker is LoggedIn and an article is queued, the
\* publication of the article has been started on the checker's page.
C13_LoggedInStartsInjection ==
    \A p \in CheckerPlatforms :
        (mon[p] = "LoggedIn" /\ Len(articles) > 0) =>
            EvPositions(p, "publishArticles") # {}

\* C14: a login wait that is LoggedIn and has gone past its navigation step
\* has issued no navigation if the URL it read last is the editor route, and
\* exactly one otherwise.
C14_OneNavigationUnlessOnEditor ==
    \A p \in LoginPlatforms :
        (mon[p] = "LoggedIn" /\ ~(p = SegmentFault /\ pc = "SFEditorCheck")) =>
            monNavs[p] = IF observed[p][Len(observed[p])] = "editor" THEN 0 ELSE 1

\* C15: a login wait that has read the URL at least once is in AwaitingLogin
\* exactly when every URL it has read so far is the login route, however many
\* it has read: it stays while the reads are login routes and leaves at the
\* first read that is not.
C15_StaysUntilFirstNonLogin ==
    \A p \in LoginPlatforms :
        Len(observed[p]) >= 1 =>
            (mon[p] = "AwaitingLogin" <=> AllLoginUpTo(p, Len(observed[p])))

\* One login wait is still AwaitingLogin after more than MaxPolls reads of
\* the login route, and another has left AwaitingLogin at its third read.
C15_Witness ==
    \E p \in LoginPlatforms, q \in LoginPlatforms :
        /\ Len(observed[p]) > MaxPolls
        /\ AllLoginUpTo(p, Len(observed[p]))
        /\ mon[p] = "AwaitingLogin"
        /\ observed[q] = <<"login", "login", "editor">>
        /\ mon[q] = "LoggedIn"

\* A log entry for a replace call of step 4.
IsUnifiedCall(e) == e.ev = "replStart" /\ e.stage = "unified"

\* The replace calls step 4 issues to a publisher that is alone: one per
\* image, in image order, with the image's placeholder and path.
SoloReplaceCalls(art) ==
    [k \in 1..Len(art.Images) |->
        Ev("replStart", k - 1, "unified", OrchestratorPlaceholder(k - 1),
           art.Images[k].AbsolutePath, "")]

\* C16: a platform whose readiness wait did not report ready is issued no
\* fill and no replace call; at the end of the flow every ready platform has
\* been issued one fill and the replace calls of a publisher that is alone,
\* whatever other pages were opened.
C16_OnlyReadyPlatformsCalled ==
    /\ \A p \in Platforms \ validPages :
          /\ log[p] = <<>>
          /\ fpc[p] = "none"
          /\ \A t \in TaskIds : t[1] = p => rpc[t] = "none"
    /\ (pc = "FlowDone" /\ Len(articles) > 0) =>
          \A p \in validPages :
              /\ Cardinality(EvPositions(p, "title")) = 1
              /\ SelectSeq(log[p], IsUnifiedCall) = SoloReplaceCalls(Art)

\* Two pages were opened, one was not ready, and the flow has ended after
\* replace calls on the other.
C16_Witness ==
    /\ pc = "FlowDone"
    /\ Cardinality(platformPages) = 2
    /\ Cardinality(validPages) = 1
    /\ \E p \in validPages : Len(SelectSeq(log[p], IsUnifiedCall)) = MaxFlowImages

\* C17: at no time are two goroutines writing state.json.
C17_SavesSerialized ==
    Cardinality({ g \in Savers : spc[g] = "writing" }) <= 1

\* Close has completed step `step`.
ShutdownDid(step) == \E k \in 1..Len(shutdown) : shutdown[k].step = step

\* C18: when the process has ended, Close has saved the session and closed
\* the context, the browser and the runtime.
C18_SignalSavesAndTearsDown ==
    proc # "running" => \A k \in 1..Len(CloseSteps) : ShutdownDid(CloseSteps[k])

\* Within one invocation of Close, step a has returned before step b.
ClosedBefore(a, b) ==
    \A k \in 1..Len(shutdown) :
        shutdown[k].step = b =>
            \E j \in 1..(k - 1) :
                shutdown[j].call = shutdown[k].call /\ shutdown[j].step = a

\* C19: in every invocation of Close the session save has returned before
\* the context is closed, and the context and the browser are closed before
\* the runtime is stopped.
C19_ShutdownOrder ==
    /\ ClosedBefore("SaveSession", "context.Close")
    /\ ClosedBefore("context.Close", "pw.Stop")
    /\ ClosedBefore("browser.Close", "pw.Stop")

\* The first Close has stopped the runtime after a save that wrote the file.
C19_Witness ==
    /\ closeCalls = 1
    /\ fileWrite["main"] = "ok"
    /\ ShutdownDid("pw.Stop")

\* C20: a save whose os.WriteFile failed returned an error.
C20_WriteFailureReported ==
    \A g \in Savers : fileWrite[g] = "failed" => saveRet[g] = "error"

\* C21: when the flow is over, for every replace call that failed because the
\* image file does not exist, the editor of that platform holds the image's
\* alt text.
C21_AltTextFallback ==
    pc = "FlowDone" =>
        \A p \in publishers :
            \A k \in EvPositions(p, "replEnd") :
                log[p][k].res = "copyerror" =>
                    \E j \in 1..Len(editor[p]) :
                        editor[p][j] = TxtSeg(Art.Images[log[p][k].i + 1].AltText)

\* C22: a replace call that starts while its placeholder is not in the
\* editor returns "not found" in the same step and leaves the editor, the
\* cursor and the clipboard as they were; at the end of the flow every
\* publisher has been issued the replace call of every image index.
C22_NotFoundIsSkipped ==
    /\ [][ \A p \in Platforms :
             LET n  == Len(log[p])
                 e1 == log'[p][n + 1]
             IN (/\ Len(log'[p]) > n
                 /\ e1.ev = "replStart"
                 /\ IndexOf(editor[p], e1.ph) = 0)
                => /\ Len(log'[p]) = n + 2
                   /\ log'[p][n + 2] = Ev("replEnd", e1.i, e1.stage, e1.ph, e1.path, "notfound")
                   /\ editor' = editor
                   /\ cursor' = cursor
                   /\ clipboard' = clipboard
                   /\ clipOwner' = clipOwner ]_vars
    /\ []((pc = "FlowDone" /\ Len(articles) > 0) =>
            \A p \in publishers :
                SelectSeq(log[p], IsUnifiedCall) = SoloReplaceCalls(Art))

\* On some platform the replace call for image 0 returned "not found" and the
\* replace call for image 1 was issued after it.
C22_Witness ==
    \E p \in publishers :
        \E j \in EvPositions(p, "replEnd"), k \in EvPositions(p, "replStart") :
            /\ log[p][j].res = "notfound"
            /\ log[p][j].i = 0
            /\ log[p][j].stage = "unified"
            /\ log[p][k].i = 1
            /\ log[p][k].stage = "unified"
            /\ j < k

\* C23: whatever fill or replace calls have failed, at the end of the flow
\* every publisher has been issued its fill call and a replace call for
\* every image index.
C23_FailuresStopNothing ==
    (pc = "FlowDone" /\ Len(articles) > 0) =>
        \A p \in publishers :
            /\ EvPositions(p, "title") # {}
            /\ \A i \in 0..(Len(Art.Images) - 1) :
                  \E k \in EvPositions(p, "replStart") :
                      log[p][k].i = i /\ log[p][k].stage = "unified"

\* The flow has ended; on one publisher the title fill and the replace call
\* of image 0 failed, and another publisher's replace call of image 1
\* succeeded.
C23_Witness ==
    /\ pc = "FlowDone"
    /\ \E p \in publishers, q \in publishers :
          /\ p # q
          /\ \E k \in EvPositions(p, "title") : log[p][k].res = "error"
          /\ \E k \in EvPositions(p, "replEnd") :
                log[p][k].i = 0 /\ log[p][k].stage = "unified" /\ log[p][k].res # "ok"
          /\ \E k \in EvPositions(q, "replEnd") :
                log[q][k].i = 1 /\ log[q][k].stage = "unified" /\ log[q][k].res = "ok"

\* The article of C24: two body lines, no image.
TwoLineArticle == ParseFile("Hello", << <<TxtSeg("a")>>, <<TxtSeg("b")>> >>)

\* C24: for the article with the two body lines a and b and no image, the
\* body text a publisher has written is exactly a, one newline, b.
C24_TwoLinesExactly ==
    articles = <<TwoLineArticle>> =>
        \A p \in publishers :
            BodyWritten(p) => bodyText[p] = <<TxtSeg("a"), NL, TxtSeg("b")>>

\* The image list with the images at positions i and j exchanged.
SwapImages(art, i, j) ==
    [art EXCEPT !.Images =
        [k \in 1..Len(art.Images) |->
            IF k = i THEN art.Images[j] ELSE IF k = j THEN art.Images[i] ELSE art.Images[k]]]

\* The 0-based line of the placeholder document of art that the replace call
\* for the image at position k of art.Images replaces: the first line that is
\* IMAGE_PLACEHOLDER_(k-1); -1 when there is none.
LineReplacedBy(art, k) ==
    LET lines == SplitLines(PrepareTextWithPlaceholders(art))
        hits  == { l \in 1..Len(lines) : lines[l] = << TxtSeg(OrchestratorPlaceholder(k - 1)) >> }
    IN IF hits = {} THEN -1
       ELSE (CHOOSE l \in hits : \A m \in hits : l <= m) - 1

\* C25: exchanging two images of the article's image list changes neither the
\* placeholder document nor the body line each image replaces.
C25_ImageOrderIrrelevant ==
    dpc = DocNames =>
        \A i \in 1..Len(Art.Images), j \in 1..Len(Art.Images) :
            LET art2 == SwapImages(Art, i, j) IN
            /\ PrepareTextWithPlaceholders(art2) = docs.text
            /\ LineReplacedBy(art2, j) = LineReplacedBy(Art, i)

C27_PastesOwnCopy ==
    BodyWritten(Zhihu) =>
        bodyText[Zhihu] = CopyOfRendered(ToTempPageHtml(PrepareMarkdownWithPlaceholders(Art)))

\* C28: once OpenPlatforms has gone past its wait, every opener has finished
\* and the page map holds exactly the platforms whose page was opened.
C28_PageMapExact ==
    pc \notin {"OpenPlatforms", "OpenWait"} =>
        /\ \A p \in platforms : opc[p] = "done"
        /\ platformPages = { p \in platforms : url[p] # "none" }

\* Two platforms were to be opened, one failed, and the map was handed to the
\* publish flow.
C28_Witness ==
    /\ pc = "ReadyLoop"
    /\ Cardinality(platforms) = 2
    /\ Cardinality(platformPages) = 1

\* C29: when the publish flow starts with no opened page on its login route,
\* the flow comes to its end.
C29_FlowTerminates ==
    (/\ pc = "ReadyLoop"
     /\ checked = {}
     /\ \A p \in platformPages : url[p] # "login")
        ~> (pc = "FlowDone")

\* The flow has ended on two publishers, SegmentFault among them without a
\* login wait, after the replace calls of two images.
C29_Witness ==
    /\ pc = "FlowDone"
    /\ Cardinality(publishers) = 2
    /\ SegmentFault \in publishers
    /\ mon[SegmentFault] = "Returned"
    /\ \A p \in publishers : Len(SelectSeq(log[p], IsUnifiedCall)) = 2

\* C30: in every parsed article each image's LineIndex is an index of a body
\* line, and no two images have the same LineIndex.
C30_ImageLineIndexes ==
    \A n \in 1..Len(articles) :
        LET art == articles[n] IN
        /\ \A k \in 1..Len(art.Images) :
              art.Images[k].LineIndex >= 0 /\ art.Images[k].LineIndex < Len(art.Content)
        /\ \A j \in 1..Len(art.Images), k \in 1..Len(art.Images) :
              j # k => art.Images[j].LineIndex # art.Images[k].LineIndex

\* ------------------------------------------------------------ configuration
\* The values a key of config.ini is given here; "" is a key that is absent.
RawValues == {"", "true", "false", "1", "maybe"}

\* Key.MustBool(false): the parsed boolean, the default when the value does
\* not parse (an absent key has the empty value).
MustBool(raw, defaultVal) ==
    IF raw \in {"1", "t", "T", "TRUE", "true", "True", "YES", "yes", "Yes",
                "y", "ON", "on", "On"}
    THEN TRUE
    ELSE IF raw \in {"0", "f", "F", "FALSE", "false", "False", "NO", "no",
                     "No", "n", "OFF", "off", "Off"}
         THEN FALSE
         ELSE defaultVal

\* juejin.URL(), cnblogs.URL(), zhihu.URL(), segmentfault.URL(): one fixed
\* entry URL per platform.
URL(p) == <<"URL", p>>

\* The key of the [publish] section that belongs to a platform.
PublishKey(p) ==
    CASE p = Juejin -> "juejin"
      [] p = Cnblogs -> "cnblogs"
      [] p = Zhihu -> "zhihu"
      [] p = SegmentFault -> "segmentfault"

\* Config.GetEnabledPlatforms: the keys juejin, cnblogs and zhihu are looked
\* up, each adding its platform when MustBool(false) is true; no other key
\* is read.
GetEnabledPlatforms(section) ==
    LET enabled == { p \in {Juejin, Cnblogs, Zhihu} :
                        MustBool(section[PublishKey(p)], FALSE) }
    IN  [p \in enabled |-> URL(p)]

\* main, up to the check of the run set: an empty set ends the run.
MainGetEnabledPlatforms ==
    /\ pc = "main"
    /\ enabledPlatforms' = GetEnabledPlatforms(publishSection)
    /\ pc' = IF DOMAIN enabledPlatforms' = {} THEN "return" ELSE "ParseAllFiles"
    /\ UNCHANGED <<platforms, articles, url, opc, platformPages, checked,
                   validPages, publishers, fpc, fi, titleField, editor, cursor,
                   clipboard, clipOwner, rpc, imageIndex, log, bodyText>>
    /\ UNCHANGED publishSection
    /\ UNCHANGED monVars
    /\ UNCHANGED docVars
    /\ UNCHANGED lifeVars

\* config.ini has been loaded; its [publish] section holds any values.
InitConfig ==
    /\ url = [p \in Platforms |-> "none"]
    /\ opc = [p \in Platforms |-> "idle"]
    /\ platformPages = {}
    /\ checked = {}
    /\ validPages = {}
    /\ publishers = {}
    /\ fpc = [p \in Platforms |-> "none"]
    /\ fi = 0
    /\ titleField = [p \in Platforms |-> ""]
    /\ editor = [p \in Platforms |-> <<>>]
    /\ cursor = [p \in Platforms |-> 1]
    /\ clipboard = <<>>
    /\ clipOwner = NoOwner
    /\ rpc = [t \in TaskIds |-> "none"]
    /\ imageIndex = 0
    /\ log = [p \in Platforms |-> <<>>]
    /\ bodyText = [p \in Platforms |-> <<>>]
    /\ mon = [p \in Platforms |-> "Unknown"]
    /\ observed = [p \in Platforms |-> <<>>]
    /\ monSaves = [p \in Platforms |-> 0]
    /\ monNavs = [p \in Platforms |-> 0]
    /\ saveCount = 0
    /\ docs = NoDocs
    /\ dpc = {}
    /\ InitLife
    /\ platforms = {}
    /\ articles = <<>>
    /\ publishSection \in [PublishKeys -> RawValues]
    /\ enabledPlatforms = NoPlatforms
    /\ pc = "main"

NextConfig == MainGetEnabledPlatforms

SpecConfig == InitConfig /\ [][NextConfig]_vars

\* The entry URLs of the run set.
RunSet == { enabledPlatforms[n] : n \in DOMAIN enabledPlatforms }

\* C31: once main has the run set, each of the four platforms' entry URL is
\* in it if and only if the platform's flag of the [publish] section is true.
C31_FlagsDecideRunSet ==
    pc \in {"return", "ParseAllFiles"} =>
        \A p \in Platforms :
            (URL(p) \in RunSet) <=> MustBool(publishSection[PublishKey(p)], FALSE)

\* ------------------------------------------------ articles with many images
\* A body of n image lines; the file of line missing (0: none) does not exist.
ImageLines(n, missing) ==
    [k \in 1..n |-> IF k = missing THEN <<ImgSeg("m", "M.png")>>
                    ELSE <<ImgSeg("x", "X.png")>>]

\* Bodies of 1 to MaxImages image lines, the longest body with one file
\* missing, and a body whose first line is text that reads like the token of
\* a later image, followed by two image lines.
ManyImageContents ==
    { ImageLines(n, 0) : n \in 1..MaxImages }
    \cup { ImageLines(MaxImages, k) : k \in 1..MaxImages }
    \cup { << <<TxtSeg(PlaceholderStr(10))>> >> \o ImageLines(2, 0) }

ManyImageArticles == { ParseFile("Hello", c) : c \in ManyImageContents }

\* OpenPlatforms is called with one platform, and m.articles[0] has up to
\* MaxImages images.
InitReplace ==
    /\ InitCommon
    /\ platforms \in { {p} : p \in Platforms }
    /\ articles \in { <<a>> : a \in ManyImageArticles }
    /\ pc = "OpenPlatforms"

SpecReplace == InitReplace /\ [][Next]_vars

\* The search a ReplaceTextWithImage call is about to run finds something.
SearchFinds(t) ==
    /\ rpc[t] = "find"
    /\ IndexOf(editor[t[1]], OrchestratorPlaceholder(t[2])) # 0

\* C32: every placeholder search of an image replacement that finds
\* something selects exactly the token of the current image, which is in the
\* document once: never the start of a longer token such as
\* IMAGE_PLACEHOLDER_10 for IMAGE_PLACEHOLDER_1, never a position whose token
\* has been consumed, for articles of up to MaxImages images.
C32_SearchSelectsOwnToken ==
    \A t \in TaskIds :
        SearchFinds(t) =>
            LET ph  == OrchestratorPlaceholder(t[2])
                doc == editor[t[1]]
            IN  /\ doc[IndexOf(doc, ph)] = TxtSeg(ph)
                /\ Cardinality({ k \in 1..Len(doc) : doc[k] = TxtSeg(ph) }) = 1

\* The tokens PrepareTextWithPlaceholders emits for an article: one per image
\* line, numbered by the running counter.
TokensOf(art) ==
    { PlaceholderStr(n) :
        n \in 0..(Cardinality({ i \in 0..(Len(art.Content) - 1) : IsImageLine(art, i) }) - 1) }

\* The body lines PrepareTextWithPlaceholders copies as they are.
BodyLinesOf(art) ==
    { art.Content[i + 1] : i \in { i \in 0..(Len(art.Content) - 1) : ~IsImageLine(art, i) } }

\* C33: no placeholder token of the injected document occurs in the text of
\* a non-image body line of the article.
C33_TokensNotInBody ==
    "text" \in dpc =>
        \A token \in TokensOf(Art), line \in BodyLinesOf(Art) :
            \A k \in 1..Len(line) : ~Occurs(line[k], token)

\* C34: a ReplaceTextWithImage call for an image whose file does not exist
\* leaves the editor document as it was, the placeholder still in it.
C34_MissingFileLeavesDocument ==
    [][\A t \in TaskIds :
          (/\ rpc[t] = "find"
           /\ rpc'[t] # "find"
           /\ Art.Images[t[2] + 1].AbsolutePath \notin ExistingFiles)
          => editor'[t[1]] = editor[t[1]]]_vars

C37_ShutdownOnce ==
    /\ \A k \in 1..Len(shutdown), j \in 1..Len(shutdown) :
          shutdown[k].step = shutdown[j].step => k = j
    /\ pc = "CloseSave" => ~ContextClosed

\* C38: on every platform whose fill has returned, a failed title fill was
\* followed by an attempt of the body fill.
C38_BodyAttemptedAfterTitleFailure ==
    \A p \in publishers :
        (/\ fpc[p] = "done"
         /\ \E k \in EvPositions(p, "title") : log[p][k].res = "error")
        => EvPositions(p, "bodyStart") # {}

====
